---------------------------- MODULE Spec2Model ----------------------------
(***************************************************************************)
(* The IPCA dashboard script src/app.py as a state machine.                *)
(*                                                                         *)
(* One script run is the linear pipeline                                   *)
(*   fetch_inflation_data (cached)  ->  dashboard block (window, KPIs,     *)
(*   chart, table)  ->  forecast preparation  ->  ARIMA fit / forecast     *)
(*   ->  footer                                                            *)
(* and a rerun starts the script again with the st.cache_data entry kept.  *)
(*                                                                         *)
(* Dates are month numbers (the series is monthly, dated on the first day  *)
(* of the month); percentages are integers in percent, and the floating    *)
(* point aggregates are kept as exact fractions << numerator, denominator  *)
(* >>.  NaN and "no value" are the empty tuple << >>, a present value v is *)
(* the tuple << v >>.  The numbers ARIMA produces are not modelled: a fit  *)
(* either succeeds or raises.                                              *)
(***************************************************************************)
EXTENDS Integers, Sequences, FiniteSets

VARIABLES
    pc,           \* position of the script run
    cache,        \* st.cache_data entry of fetch_inflation_data: << >> or << entry >>
    now,          \* wall clock, in refresh intervals' ticks
    df,           \* module-level df (line 43)
    page,         \* elements rendered so far in this run
    date_range,   \* value of the sidebar date_input (line 53)
    df_filtered,  \* line 63 / 65
    kpis,         \* the three metrics of lines 73-75: << >> or << record >>
    df_forecast,  \* lines 113-115
    predict_df    \* the 'Date' column of predict_df (lines 130-137)

vars == << pc, cache, now, df, page, date_range, df_filtered, kpis,
           df_forecast, predict_df >>

(***************************************************************************)
(* Bounds of the model.                                                    *)
(***************************************************************************)
MaxRecords == 3
MaxMonth == 3
MaxTime == 2
MaxWindow == 3

Months == 1..MaxMonth
Values == {-1, 2}
AggValues == {-1, 0, 1, 2}

\* The forecast horizon, line 124 (forecast_steps = 6).
forecast_steps == 6

Records == [data : Months, valor : Values]
Responses == UNION { [1..n -> Records] : n \in 0..MaxRecords }
FailureKinds == {"http_error", "transport_failure", "unparseable"}

(***************************************************************************)
(* Helpers on data frames (sequences of rows).                             *)
(***************************************************************************)
Dates(frame) == { frame[i].data : i \in 1..Len(frame) }

\* df['data'].min() / .max(), lines 50-51.
MinDate(frame) == CHOOSE d \in Dates(frame) : \A e \in Dates(frame) : d <= e
MaxDate(frame) == CHOOSE d \in Dates(frame) : \A e \in Dates(frame) : d >= e

\* The boolean mask of line 62 applied by df.loc[mask].
Mask(frame, lo, hi) ==
    SelectSeq(frame, LAMBDA r : r.data >= lo /\ r.data <= hi)

\* A faulty variant of DfFiltered: a single date is read as the one-day range.
DfFilteredSingleDay(frame, dr) ==
    IF Len(dr) = 2 THEN Mask(frame, dr[1], dr[2])
    ELSE IF Len(dr) = 1 THEN Mask(frame, dr[1], dr[1])
    ELSE frame

\* Lines 61-65: the window selection.
DfFiltered(frame, dr) ==
    IF Len(dr) = 2 THEN Mask(frame, dr[1], dr[2]) ELSE frame

\* What st.sidebar.date_input can return: a tuple of 0, 1 or 2 dates, each
\* within [min_value, max_value] (lines 53-58).  The two dates of a range
\* are taken in either order: line 62 reads them as they come.
DateInputs(frame) ==
    LET D == IF frame = << >> THEN {} ELSE MinDate(frame)..MaxDate(frame)
    IN  {<< >>} \cup { <<a>> : a \in D } \cup { <<a, b>> : a \in D, b \in D }

(***************************************************************************)
(* Aggregates, lines 69-75.                                                *)
(***************************************************************************)
RECURSIVE Prod(_)
\* ((valor / 100) + 1).prod(), scaled by 100 per factor: the product of
\* (100 + v_i), folded from the first row on.
Prod(w) == IF w = << >> THEN 1 ELSE Prod(SubSeq(w, 1, Len(w) - 1)) * (100 + w[Len(w)].valor)

RECURSIVE Sum(_)
Sum(w) == IF w = << >> THEN 0 ELSE Sum(SubSeq(w, 1, Len(w) - 1)) + w[Len(w)].valor

RECURSIVE Pow100(_)
Pow100(n) == IF n = 0 THEN 1 ELSE 100 * Pow100(n - 1)

\* A faulty variant of CumulativeInflation: the monthly values are summed.
CumulativeInflationSum(w) == << Sum(w), 1 >>

\* Line 69: (prod - 1) * 100 as the fraction << num, den >>, in percent.
\* With n rows prod - 1 = (Prod(w) - 100^n) / 100^n; the empty product is 1.
CumulativeInflation(w) ==
    IF w = << >> THEN << 0, 1 >>
    ELSE << Prod(w) - Pow100(Len(w)), Pow100(Len(w) - 1) >>

\* Line 74: df_filtered['valor'].mean(); NaN on an empty frame.
MeanValor(w) == IF w = << >> THEN << >> ELSE << Sum(w), Len(w) >>

\* Line 75: df_filtered['valor'].max(); NaN on an empty frame.
MaxValor(w) ==
    IF w = << >> THEN << >>
    ELSE << CHOOSE v \in { w[i].valor : i \in 1..Len(w) } :
               \A i \in 1..Len(w) : v >= w[i].valor >>

Metrics(w) ==
    [cumulative |-> CumulativeInflation(w), mean |-> MeanValor(w), max |-> MaxValor(w)]

(***************************************************************************)
(* Forecast preparation, lines 113-115, and the forecast dates, 129-130.   *)
(***************************************************************************)
RECURSIVE Insert(_, _)
Insert(r, s) ==
    IF s = << >> THEN << r >>
    ELSE IF r.data < s[1].data THEN << r >> \o s
    ELSE << s[1] >> \o Insert(r, Tail(s))

RECURSIVE SortValues(_)
\* sort_values('data'), ascending.  Rows with equal dates keep their order
\* here; their order is never read, since asfreq raises on them.
SortValues(frame) ==
    IF frame = << >> THEN << >>
    ELSE Insert(frame[Len(frame)], SortValues(SubSeq(frame, 1, Len(frame) - 1)))

HasDuplicateLabels(frame) ==
    \E i, j \in 1..Len(frame) : i # j /\ frame[i].data = frame[j].data

ValorAt(frame, d) ==
    IF d \in Dates(frame)
    THEN << (CHOOSE i \in 1..Len(frame) : frame[i].data = d) >>
    ELSE << >>

\* set_index('data').asfreq('MS'): one row per month from the first to the
\* last label; a month without a row gets NaN.
AsFreq(frame) ==
    [ i \in 1..(MaxDate(frame) - MinDate(frame) + 1) |->
        LET d == MinDate(frame) + i - 1
            at == ValorAt(frame, d)
        IN  [data |-> d,
             valor |-> IF at = << >> THEN << >> ELSE << frame[at[1]].valor >>] ]

\* A faulty variant of ForecastSource: the forecast reads the selected window.
ForecastSourceWindow(full, window) == window

\* Line 113 copies df, the full series, not df_filtered.
ForecastSource(full, window) == full

\* A faulty variant of ForecastStart: the month offset is dropped.
ForecastStartNoOffset(last_date) == last_date

\* Line 130: start = last_date + pd.DateOffset(months=1).
ForecastStart(last_date) == last_date + 1

\* pd.date_range(start, periods, freq='MS') from a month start.
DateRangeMS(start, periods) == [ i \in 1..periods |-> start + (i - 1) ]

\* Lines 129-130.
ForecastDates(frame) ==
    DateRangeMS(ForecastStart(frame[Len(frame)].data), forecast_steps)

(***************************************************************************)
(* The state after the page header (lines 1-19), before line 43.           *)
(***************************************************************************)
Init ==
    /\ pc = "start"
    /\ cache = << >>
    /\ now = 0
    /\ df = << >>
    /\ page = {}
    /\ date_range = << >>
    /\ df_filtered = << >>
    /\ kpis = << >>
    /\ df_forecast = << >>
    /\ predict_df = << >>

RunLocalsUnchanged ==
    UNCHANGED << date_range, df_filtered, kpis, df_forecast, predict_df >>

\* Lines 30-37, 43: a cache miss, the endpoint answers 2xx with records that
\* all parse.  An empty JSON array gives a frame without a 'data' column,
\* line 35 raises KeyError and the handler of lines 38-40 takes over.
FetchSucceeds(records) ==
    /\ pc = "start"
    /\ cache = << >>
    /\ LET failed == records = << >>
           entry == [value |-> records,
                     error |-> IF failed THEN "empty_response" ELSE "none",
                     at |-> now]
       IN  /\ cache' = << entry >>
           /\ df' = records
           /\ page' = IF failed THEN {"fetch_error"} ELSE {}
    /\ pc' = "loaded"
    /\ UNCHANGED now
    /\ RunLocalsUnchanged

\* Lines 30-40, 43: requests.get raises, raise_for_status raises, or a record
\* does not parse; st.error and the empty frame, which is cached as well.
FetchFails(kind) ==
    /\ pc = "start"
    /\ cache = << >>
    /\ cache' = << [value |-> << >>, error |-> kind, at |-> now] >>
    /\ df' = << >>
    /\ page' = {"fetch_error"}
    /\ pc' = "loaded"
    /\ UNCHANGED now
    /\ RunLocalsUnchanged

\* Line 30: requests.get(url) is called without a timeout; when the endpoint
\* never answers the call never returns.
FetchHangs ==
    /\ pc = "start"
    /\ cache = << >>
    /\ pc' = "blocked"
    /\ UNCHANGED << cache, now, df, page >>
    /\ RunLocalsUnchanged

\* Lines 22, 43: @st.cache_data without ttl or max_entries; an entry is
\* returned whatever its age (the st.error of the cached call is replayed).
CacheHit ==
    /\ pc = "start"
    /\ cache # << >>
    /\ df' = cache[1].value
    /\ page' = IF cache[1].error = "none" THEN {} ELSE {"fetch_error"}
    /\ pc' = "loaded"
    /\ UNCHANGED << cache, now >>
    /\ RunLocalsUnchanged

\* Lines 45-92: the dashboard block on a non-empty frame.
RenderDashboard(dr) ==
    /\ pc = "loaded"
    /\ df # << >>
    /\ dr \in DateInputs(df)
    /\ date_range' = dr
    /\ df_filtered' = DfFiltered(df, dr)
    /\ kpis' = << Metrics(DfFiltered(df, dr)) >>
    /\ page' = page \cup {"kpis", "chart", "table"}
    /\ pc' = "dashboard"
    /\ UNCHANGED << cache, now, df, df_forecast, predict_df >>

\* Lines 94-95.
WarnNoData ==
    /\ pc = "loaded"
    /\ df = << >>
    /\ page' = page \cup {"no_data_warning"}
    /\ pc' = "dashboard"
    /\ UNCHANGED << cache, now, df >>
    /\ RunLocalsUnchanged

\* Lines 102-115, outside any try: sort_values('data') raises KeyError on the
\* column-less empty frame, asfreq raises ValueError on duplicate labels.
PrepareForecast ==
    /\ pc = "dashboard"
    /\ LET src == ForecastSource(df, df_filtered)
       IN  IF src = << >> \/ HasDuplicateLabels(src)
           THEN /\ pc' = "aborted"
                /\ page' = page \cup {"forecast_header", "exception"}
                /\ UNCHANGED df_forecast
           ELSE /\ pc' = "prepared"
                /\ page' = page \cup {"forecast_header"}
                /\ df_forecast' = AsFreq(SortValues(src))
    /\ UNCHANGED << cache, now, df, date_range, df_filtered, kpis, predict_df >>

\* Lines 117-150: the fit and the forecast succeed.
ForecastSucceeds ==
    /\ pc = "prepared"
    /\ predict_df' = ForecastDates(df_forecast)
    /\ page' = page \cup {"forecast_chart", "forecast_info"}
    /\ pc' = "forecast"
    /\ UNCHANGED << cache, now, df, date_range, df_filtered, kpis, df_forecast >>

\* Lines 117-121, 152-153: ARIMA raises, the handler warns.
ForecastFails ==
    /\ pc = "prepared"
    /\ page' = page \cup {"forecast_warning"}
    /\ pc' = "forecast"
    /\ UNCHANGED << cache, now, df, date_range, df_filtered, kpis, df_forecast,
                    predict_df >>

\* Lines 155-157.
RenderFooter ==
    /\ pc = "forecast"
    /\ page' = page \cup {"footer"}
    /\ pc' = "done"
    /\ UNCHANGED << cache, now, df, date_range, df_filtered, kpis, df_forecast,
                    predict_df >>

\* A widget interaction reruns the script from line 1; only the cache of
\* line 22 survives.
Rerun ==
    /\ pc \in {"done", "aborted"}
    /\ pc' = "start"
    /\ df' = << >>
    /\ page' = {}
    /\ date_range' = << >>
    /\ df_filtered' = << >>
    /\ kpis' = << >>
    /\ df_forecast' = << >>
    /\ predict_df' = << >>
    /\ UNCHANGED << cache, now >>

\* Time passes; nothing in the script reads the clock.
Tick ==
    /\ now < MaxTime
    /\ now' = now + 1
    /\ UNCHANGED << pc, cache, df, page, date_range, df_filtered, kpis,
                    df_forecast, predict_df >>

Next ==
    \/ \E records \in Responses : FetchSucceeds(records)
    \/ \E kind \in FailureKinds : FetchFails(kind)
    \/ FetchHangs
    \/ CacheHit
    \/ \E dr \in DateInputs(df) : RenderDashboard(dr)
    \/ WarnNoData
    \/ PrepareForecast
    \/ ForecastSucceeds
    \/ ForecastFails
    \/ RenderFooter
    \/ Rerun

Spec == Init /\ [][Next]_vars

\* The runs with the clock running.
NextTimed == Next \/ Tick

CacheSpec == Init /\ [][NextTimed]_vars

(***************************************************************************)
(* The aggregate computation on its own: the state after a successful      *)
(* fetch of an ascending monthly series, and the dashboard block applied   *)
(* to it for every date input.                                             *)
(***************************************************************************)
AggSeries ==
    UNION { { [ i \in 1..n |-> [data |-> i, valor |-> v[i]] ] : v \in [1..n -> AggValues] } :
            n \in 1..MaxWindow }

AggInit ==
    /\ pc = "loaded"
    /\ df \in AggSeries
    /\ cache = << [value |-> df, error |-> "none", at |-> 0] >>
    /\ now = 0
    /\ page = {}
    /\ date_range = << >>
    /\ df_filtered = << >>
    /\ kpis = << >>
    /\ df_forecast = << >>
    /\ predict_df = << >>

AggNext == \E dr \in DateInputs(df) : RenderDashboard(dr)

AggSpec == AggInit /\ [][AggNext]_vars

(***************************************************************************)
(* Properties.                                                             *)
(***************************************************************************)
\* The dashboard block of lines 45-92 has run on a non-empty frame.
DashboardRan ==
    df # << >> /\ pc \in {"dashboard", "prepared", "forecast", "done", "aborted"}

ValuesOf(w) == [ i \in 1..Len(w) |-> w[i].valor ]

\* C1: whatever the fetch and the fit do, a run that has stopped has rendered
\* the footer and no stage raised an exception outside a handler; in
\* particular the forecast preparation after a failed fetch does not raise.
C1_NoUncaughtFault ==
    /\ pc # "aborted"
    /\ "exception" \notin page
    /\ (pc = "done" => "footer" \in page)

\* C2: for a window without observations the run short-circuits: no KPI is
\* rendered.
C2_EmptyWindowShortCircuits ==
    (DashboardRan /\ df_filtered = << >>) => (kpis = << >> /\ "kpis" \notin page)

\* C3: a range given as (start, end) with start > end selects the same
\* observations as (end, start).
C3_TransposedRangeSwapped ==
    (DashboardRan /\ Len(date_range) = 2 /\ date_range[1] > date_range[2])
        => df_filtered = Mask(df, date_range[2], date_range[1])

\* C4: with a single date in the date input the window is the result of
\* selecting the full range [min date, max date], the whole series, and the
\* dashboard block renders.
C4_SingleDateIsFullRange ==
    (DashboardRan /\ Len(date_range) = 1)
        => /\ df_filtered = Mask(df, MinDate(df), MaxDate(df))
           /\ df_filtered = df
           /\ kpis # << >>
           /\ {"kpis", "chart", "table"} \subseteq page

C4_Witness ==
    /\ pc = "dashboard"
    /\ Len(date_range) = 1
    /\ Len(df) >= 2
    /\ MinDate(df) < date_range[1]
    /\ df_filtered = df

RECURSIVE C5_Product(_)
\* The product of (100 + v) over a sequence of values, from the head on.
C5_Product(v) == IF v = << >> THEN 1 ELSE (100 + Head(v)) * C5_Product(Tail(v))

RECURSIVE C5_Total(_)
C5_Total(v) == IF v = << >> THEN 0 ELSE Head(v) + C5_Total(Tail(v))

\* Equality of two fractions one of whose denominators divides the other.
C5_SameValue(a, b) ==
    IF a[2] >= b[2]
    THEN a[2] % b[2] = 0 /\ a[1] = b[1] * (a[2] \div b[2])
    ELSE b[2] % a[2] = 0 /\ b[1] = a[1] * (b[2] \div a[2])

\* The parts of C5 that do not name the worked example's decimal value.
C5_General ==
    (pc = "dashboard" /\ df_filtered # << >>) =>
        LET v == ValuesOf(df_filtered)
            n == Len(v)
            k == kpis[1]
        IN  /\ k.cumulative[2] > 0
            /\ C5_SameValue(k.cumulative, << C5_Product(v) - Pow100(n), Pow100(n - 1) >>)
            /\ k.mean = << C5_Total(v), n >>
            /\ \E i \in 1..n : k.max = << v[i] >>
            /\ \A i \in 1..n : k.max[1] >= v[i]
            /\ ((\A i \in 1..n : v[i] = 0) =>
                    k.cumulative[1] = 0 /\ k.mean[1] = 0 /\ k.max = << 0 >>)
            /\ (v = << 1, 2, -1 >> =>
                    k.cumulative[1] * 10000 = (101 * 102 * 99 - 1000000) * k.cumulative[2])

\* C5 as amended: the cumulative change is the compounded product over the
\* window's observations, minus one, in percent; all-zero values give 0%;
\* the window [1.0, 2.0, -1.0] gives ((1.01)(1.02)(0.99) - 1) x 100 =
\* 1.9898%, which is not the sum 2.0%; the mean is the arithmetic mean and
\* the max the largest monthly value.
C5_CompoundingAmended ==
    /\ C5_General
    /\ (pc = "dashboard" /\ ValuesOf(df_filtered) = << 1, 2, -1 >>) =>
            /\ kpis[1].cumulative[1] * 10000 = 19898 * kpis[1].cumulative[2]
            /\ kpis[1].cumulative[1] # 2 * kpis[1].cumulative[2]

C5_Witness ==
    /\ pc = "dashboard"
    /\ ValuesOf(df_filtered) = << 1, 2, -1 >>
    /\ kpis = << [cumulative |-> << 19898, 10000 >>, mean |-> << 2, 3 >>, max |-> << 2 >>] >>

\* C5 as stated: as above, with the window [1.0, 2.0, -1.0] giving about
\* 1.9698%.
C5_CompoundingAsClaimed ==
    /\ C5_General
    /\ (pc = "dashboard" /\ ValuesOf(df_filtered) = << 1, 2, -1 >>) =>
            kpis[1].cumulative[1] * 10000 = 19698 * kpis[1].cumulative[2]

\* C6: a forecast that succeeded has exactly forecast_steps dates, one per
\* consecutive month, the first being the month after the last observed date
\* of the fetched series, whatever the order of the records and the gaps.
C6_ForecastDates ==
    "forecast_chart" \in page =>
        /\ Len(predict_df) = forecast_steps
        /\ \A i \in 1..Len(predict_df) : predict_df[i] = MaxDate(df) + i
        /\ \A i \in 1..(Len(predict_df) - 1) : predict_df[i + 1] = predict_df[i] + 1

C6_Witness ==
    /\ pc = "done"
    /\ "forecast_chart" \in page
    /\ Len(df) = 2
    /\ df[1].data = 3
    /\ df[2].data = 1
    /\ predict_df = << 4, 5, 6, 7, 8, 9 >>

\* C7: a run that starts once the refresh interval (here MaxTime ticks, the
\* longest the clock of the model measures) has elapsed since the result was
\* cached fetches anew and stores a fresh entry.
C7_RefreshedOnInterval ==
    [][ (pc = "start" /\ cache # << >> /\ now - cache[1].at >= MaxTime /\ pc' = "loaded")
            => (cache' # << >> /\ cache'[1].at = now) ]_vars

\* C8: the forecast stage reads the full series only: its abort, its
\* reindexed input and its dates are functions of df whatever the date
\* input, and neither a failed fit nor a failed preparation takes the KPIs,
\* the chart and the table of a fetched series off the page.
C8_StagesIndependent ==
    /\ (pc \in {"prepared", "forecast", "done"} =>
            /\ df # << >>
            /\ ~HasDuplicateLabels(df)
            /\ Len(df_forecast) = MaxDate(df) - MinDate(df) + 1
            /\ \A i \in 1..Len(df_forecast) :
                  /\ df_forecast[i].data = MinDate(df) + i - 1
                  /\ \A j \in 1..Len(df) :
                        df[j].data = df_forecast[i].data
                            => df_forecast[i].valor = << df[j].valor >>
                  /\ (df_forecast[i].data \notin Dates(df)) => df_forecast[i].valor = << >>)
    /\ (pc = "aborted" => (df = << >> \/ HasDuplicateLabels(df)))
    /\ ("forecast_chart" \in page => predict_df[1] = MaxDate(df) + 1)
    /\ ((df # << >> /\ pc \in {"prepared", "forecast", "done", "aborted"}) =>
            /\ {"kpis", "chart", "table"} \subseteq page
            /\ kpis = << Metrics(df_filtered) >>)

C8_Witness ==
    /\ pc = "done"
    /\ "forecast_warning" \in page
    /\ Len(df) = 3
    /\ Len(date_range) = 2
    /\ Len(df_filtered) = 1
    /\ Len(df_forecast) = 3
    /\ {"kpis", "chart", "table", "footer"} \subseteq page

\* C9: the series a fetch leaves in df is ascending by date with unique
\* timestamps, whatever the order of the records of the response.
C9_CanonicalSorted ==
    \A i, j \in 1..Len(df) : i < j => df[i].data < df[j].data

\* C10: the network fetch is bounded by a timeout: no run stays in the call
\* of requests.get for ever.
C10_FetchBoundedByTimeout == pc # "blocked"


=============================================================================
